---- MODULE Spec2Model ----
(***************************************************************************)
(* ConsulKvMonitor (consul-kv-monitor 2.0.3): the watch / health / retry   *)
(* state machine of src/src/ConsulKvData.js (class ConsulKvMonitor), with  *)
(* the snapshot builder (buildConsulKvData) and the record validator       *)
(* (filterValidKvRecords) it calls.                                        *)
(*                                                                         *)
(* One step of the model is one macrotask of the Node.js event loop: a     *)
(* call made by the user (start, stop), a signal of a consul watch         *)
(* (change, error, error followed by end), a timer callback (initial-fetch *)
(* deadline, fallback interval, retry timeout) or a setImmediate callback. *)
(* The promise continuations a macrotask queues (the .then of start(), the *)
(* await of _retryStartService) run inside the same step, after its        *)
(* synchronous part, as microtasks do.                                     *)
(***************************************************************************)
EXTENDS Integers, Sequences, FiniteSets, TLC

\* ---------------------------------------------------------------- bounds
\* Watch objects that are alive at the same time (open, or closed with a
\* pending deadline timer).
MaxWatches == 3
\* Watch objects that are alive when the user calls start().
MaxStartWatches == 1
\* Open watches that this._watchKvChange does not reference, while the process runs.
MaxOrphanWatches == 1
\* Successful responses one watch receives (its updateTime() values).
MaxUpdateTime == 2
\* Retry timeouts that are pending but no longer referenced by _retryTimer.
MaxOrphanRetryTimers == 1
\* setImmediate callbacks queued at the same time.
MaxImmediates == 1
\* The elements of a payload of buildConsulKvData called on its own.
MaxRecords == 3

\* `null`, as held by _watchKvChange when no watcher is registered.
Null == 0
WatchIds == 1..MaxWatches

X_CONSUL_HEADERS == {"x-consul-index", "x-consul-knownleader", "x-consul-lastcontact"}

\* --------------------------------------------------- consul KV payloads
KvFields == {"Key", "Value", "CreateIndex", "Flags", "LockIndex", "ModifyIndex"}

\* A record of the KV list. `fields` are the properties it has.
RecJson == [type |-> "object", fields |-> KvFields, Key |-> "k1", Value |-> "\"v\""]
RecRaw == [type |-> "object", fields |-> KvFields, Key |-> "k2", Value |-> "v"]
RecNoFlags == [type |-> "object", fields |-> KvFields \ {"Flags"}, Key |-> "k3", Value |-> "\"v\""]
\* Two more records of the key k1, a record without the property `field`, and
\* elements that are no records: a string and an array.
RecJsonSameKey == [type |-> "object", fields |-> KvFields, Key |-> "k1", Value |-> "\"w\""]
RecRawSameKey == [type |-> "object", fields |-> KvFields, Key |-> "k1", Value |-> "w"]
\* A record of the key k2 whose Value is JSON text.
RecJsonOtherKey == [type |-> "object", fields |-> KvFields, Key |-> "k2", Value |-> "\"w\""]
RecWithout(field) == [type |-> "object", fields |-> KvFields \ {field}, Key |-> "k4", Value |-> "v"]
RecString == [type |-> "string", fields |-> {}, Key |-> "", Value |-> ""]
RecArray == [type |-> "array", fields |-> {}, Key |-> "", Value |-> ""]

\* `undefined`: no payload.
Undefined == [type |-> "undefined", items |-> <<>>]
\* buildConsulKvData has not been called.
NoResult == <<>>

Payload1 == [type |-> "array", items |-> <<RecJson>>]
Payload2 == [type |-> "array", items |-> <<RecRaw, RecNoFlags>>]

\* Responses of consul to the blocking query: the decoded body and the headers.
Response1 == [data |-> Payload1,
              headers |-> [h \in X_CONSUL_HEADERS |->
                  IF h = "x-consul-index" THEN "313984" ELSE IF h = "x-consul-knownleader" THEN "true" ELSE "0"]]
Response2 == [data |-> Payload2,
              headers |-> [h \in X_CONSUL_HEADERS |->
                  IF h = "x-consul-index" THEN "313985" ELSE IF h = "x-consul-knownleader" THEN "true" ELSE "7"]]
Responses == {Response1, Response2}

\* Errors the watch reports: a 500 (the watch goes on) and a 400 (the watch ends).
WatchErrs == {[message |-> "internal server error", fatal |-> FALSE],
              [message |-> "bad request", fatal |-> TRUE]}

\* JSON.parse on the values used here: "\"v\"" is the JSON text of the string v,
\* the bare v is no JSON text.
JsonParse(text) ==
    IF text = "\"v\"" THEN [ok |-> TRUE, value |-> "v"]
    ELSE IF text = "\"w\"" THEN [ok |-> TRUE, value |-> "w"]
    ELSE [ok |-> FALSE, value |-> ""]

\* _.isObject: objects, arrays and functions.
isObject(type) == type \in {"object", "array", "function"}

InvalidDataError(message, extra) == [name |-> "InvalidDataError", message |-> message, extra |-> extra]
WatchError(message) == [name |-> "WatchError", message |-> message, extra |-> <<>>]
WatchTimeoutError == [name |-> "WatchTimeoutError", message |-> "Initial consul watch request was timed out", extra |-> <<>>]
AlreadyInitializedError == [name |-> "AlreadyInitializedError", message |-> "Service is already started", extra |-> <<>>]
TypeError == [name |-> "TypeError", message |-> "Cannot read property of null", extra |-> <<>>]

RECURSIVE FilterRecords(_, _)
FilterRecords(records, acc) ==
    IF records = <<>> THEN acc
    ELSE LET record == Head(records)
             bad == ~isObject(record.type) \/ \E field \in KvFields : field \notin record.fields
         IN FilterRecords(Tail(records),
                IF bad
                THEN [acc EXCEPT !.errors = Append(@,
                        InvalidDataError("Invalid format of record data received from consul KV", <<record>>))]
                ELSE [acc EXCEPT !.validRecords = Append(@, record)])

filterValidKvRecords(records) ==
    IF records.type # "array"
    THEN [validRecords |-> <<>>,
          errors |-> <<InvalidDataError("Invalid format of data received from consul KV", <<records>>)>>]
    ELSE FilterRecords(records.items, [validRecords |-> <<>>, errors |-> <<>>])

\* A map in which an entry of a key that the map has is dropped.
MapSetKeepsFirst(kvMap, entry) ==
    IF \E k \in 1..Len(kvMap) : kvMap[k].key = entry.key THEN kvMap ELSE Append(kvMap, entry)

\* new Map(records): a later entry of a key replaces the value, at the place of the first.
RECURSIVE MapSet(_, _)
MapSet(kvMap, entry) ==
    IF kvMap = <<>> THEN <<entry>>
    ELSE IF Head(kvMap).key = entry.key THEN <<entry>> \o Tail(kvMap)
    ELSE <<Head(kvMap)>> \o MapSet(Tail(kvMap), entry)

\* The records built with the raw value kept when JSON.parse throws.
RECURSIVE BuildRecordsKeepsRaw(_, _, _)
BuildRecordsKeepsRaw(validRecords, json, acc) ==
    IF validRecords = <<>> THEN acc
    ELSE LET record == Head(validRecords)
             parsed == JsonParse(record.Value)
         IN BuildRecordsKeepsRaw(Tail(validRecords), json,
                [acc EXCEPT !.consulKvData = MapSet(@,
                    [key |-> record.Key,
                     value |-> IF json /\ parsed.ok THEN parsed.value ELSE record.Value,
                     metaData |-> record])])

\* The records built with the diagnostic of a value put in front of the others.
RECURSIVE BuildRecordsErrorsInFront(_, _, _)
BuildRecordsErrorsInFront(validRecords, json, acc) ==
    IF validRecords = <<>> THEN acc
    ELSE LET record == Head(validRecords)
             parsed == JsonParse(record.Value)
         IN BuildRecordsErrorsInFront(Tail(validRecords), json,
                IF json /\ ~parsed.ok
                THEN [acc EXCEPT !.errors = <<InvalidDataError(
                        "Invalid JSON of Value field of KV is received from consul, record will be skipped",
                        <<record.Key, record.Value>>)>> \o @]
                ELSE [acc EXCEPT !.consulKvData = MapSet(@,
                        [key |-> record.Key,
                         value |-> IF json THEN parsed.value ELSE record.Value,
                         metaData |-> record])])

RECURSIVE BuildRecords(_, _, _)
BuildRecords(validRecords, json, acc) ==
    IF validRecords = <<>> THEN acc
    ELSE LET record == Head(validRecords)
             parsed == JsonParse(record.Value)
         IN BuildRecords(Tail(validRecords), json,
                IF json /\ ~parsed.ok
                THEN [acc EXCEPT !.errors = Append(@, InvalidDataError(
                        "Invalid JSON of Value field of KV is received from consul, record will be skipped",
                        <<record.Key, record.Value>>))]
                ELSE [acc EXCEPT !.consulKvData = MapSet(@,
                        [key |-> record.Key,
                         value |-> IF json THEN parsed.value ELSE record.Value,
                         metaData |-> record])])

\* buildConsulKvData without the test of line 15.
buildConsulKvDataWithoutUndefined(data, json) ==
    LET filtered == filterValidKvRecords(data)
    IN BuildRecords(filtered.validRecords, json,
           [consulKvData |-> <<>>, errors |-> filtered.errors])

\* new ConsulKvData([]) is the empty sequence of entries.
buildConsulKvData(data, json) ==
    IF data.type = "undefined" THEN [consulKvData |-> <<>>, errors |-> <<>>]
    ELSE LET filtered == filterValidKvRecords(data)
         IN BuildRecords(filtered.validRecords, json,
                [consulKvData |-> <<>>, errors |-> filtered.errors])

\* ------------------------------------------------------------ the state
VARIABLES
    json,                            \* options.json
    watchKvChange,                   \* this._watchKvChange: a watch id, or Null
    initialized,                     \* this._initialized
    isWatchHealthy,                  \* this._isWatchHealthy
    consulKvData,                    \* this._consulKvData: the entries of its map
    consulHeaders,                   \* this._consulHeaders: a set of <<name, value>>
    fallbackToWatchHealthyInterval,  \* <<>> (null) or <<initialUpdateTime>> of the running interval
    orphanFallbackIntervals,         \* running intervals whose handle was overwritten
    retryTimer,                      \* this._retryTimer: "null", "armed" (pending) or "fired" (a stale handle)
    orphanRetryTimers,               \* pending retry timeouts whose handle was overwritten
    watches,                         \* the consul watch objects created by consul.watch()
    deadlines,                       \* pending initial-fetch timeouts (timerId), oldest first
    immediates,                      \* queued setImmediate callbacks: the errors each will emit
    fault,                           \* an exception left a listener or a timer callback uncaught
    stopped,                         \* history: stop() was the user's last call
    lateSignals,                     \* the environment: a watch that stop() has ended still delivers
                                     \* one signal to the listeners left on it
    rawData,                         \* the payload handed to buildConsulKvData called on its own
    result,                          \* <<what that call returned>>, or NoResult before the call
    last                             \* what the last step did: the handler that ran (op) and for which
                                     \* watch (sess), the notifications it emitted, the start()
                                     \* promises it settled, the watches it opened and closed, the
                                     \* closed ones that still carry listeners of the monitor,
                                     \* what the call returned, and what the user's listener of
                                     \* `unhealthy` did in the step ("none", or "stop": it called stop())

monitorVars == <<json, watchKvChange, initialized, isWatchHealthy, consulKvData, consulHeaders,
                 fallbackToWatchHealthyInterval, orphanFallbackIntervals, retryTimer,
                 orphanRetryTimers, watches, deadlines, immediates, fault>>
vars == <<json, watchKvChange, initialized, isWatchHealthy, consulKvData, consulHeaders,
          fallbackToWatchHealthyInterval, orphanFallbackIntervals, retryTimer,
          orphanRetryTimers, watches, deadlines, immediates, fault, stopped,
          lateSignals, rawData, result, last>>

\* A watch object. firstChange / firstError: the `once` listeners of the start()
\* call that created it are attached; onChange / onError / onEnd: how many times
\* the persistent handlers are attached; owner and promise: who awaits the
\* start() call that created it and whether its promise is still pending.
FreeWatch == [state |-> "free", firstChange |-> FALSE, firstError |-> FALSE,
              onChange |-> 0, onError |-> 0, onEnd |-> 0,
              owner |-> "none", promise |-> "none", updateTime |-> 0]

NoStep == [op |-> "init", sess |-> Null, emitted |-> <<>>, settled |-> <<>>,
           opened |-> {}, closed |-> {}, listening |-> {}, returned |-> "none",
           listener |-> "none"]

\* The state a handler works on: the variables as a record, plus the microtasks
\* queued in the current step and `overflow` (the step needs more than the bounds).
State(op, s) ==
    [json |-> json, watchKvChange |-> watchKvChange, initialized |-> initialized,
     isWatchHealthy |-> isWatchHealthy, consulKvData |-> consulKvData,
     consulHeaders |-> consulHeaders,
     fallbackToWatchHealthyInterval |-> fallbackToWatchHealthyInterval,
     orphanFallbackIntervals |-> orphanFallbackIntervals,
     retryTimer |-> retryTimer, orphanRetryTimers |-> orphanRetryTimers,
     watches |-> watches, deadlines |-> deadlines, immediates |-> immediates,
     fault |-> fault, stopped |-> stopped, lateSignals |-> lateSignals,
     microtasks |-> <<>>, overflow |-> FALSE,
     last |-> [NoStep EXCEPT !.op = op, !.sess = s]]

RemoveAll(seq, x) == SelectSeq(seq, LAMBDA y : y # x)

Event(name, data, error) == [name |-> name, data |-> data, error |-> error]
NoError == [name |-> "", message |-> "", extra |-> <<>>]

\* EventEmitter.emit on the monitor.
Emit(m, name, data, error) ==
    [m EXCEPT !.last.emitted = Append(@, Event(name, data, error))]

\* An exception that nothing catches: thrown in a listener of the watch or in a timer callback.
Throw(m) == [m EXCEPT !.fault = TRUE]

isInitialized(m) == m.initialized
isWatcherRegistered(m) == m.watchKvChange # Null

setHeaders(m, response) ==
    [m EXCEPT !.consulHeaders =
        {p \in @ : p[1] \notin X_CONSUL_HEADERS}
            \cup {<<h, response.headers[h]>> : h \in X_CONSUL_HEADERS}]

emitFactoryErrors(m, errors) ==
    IF Len(m.immediates) >= MaxImmediates THEN [m EXCEPT !.overflow = TRUE]
    ELSE [m EXCEPT !.immediates = Append(@, errors)]

\* clearInterval of the handle (of nothing when it is null), and the handle set to null.
unsetFallbackToWatchHealthy(m) == [m EXCEPT !.fallbackToWatchHealthyInterval = <<>>]

\* setInterval starts an interval and the assignment overwrites the handle: an
\* interval that the handle referenced goes on running.
setFallbackToWatchHealthy(m) ==
    LET m1 == IF m.fallbackToWatchHealthyInterval # <<>> THEN unsetFallbackToWatchHealthy(m) ELSE m
    IN IF m1.watchKvChange = Null THEN Throw(m1)
       ELSE [m1 EXCEPT !.fallbackToWatchHealthyInterval = <<m1.watches[m1.watchKvChange].updateTime>>,
                       !.orphanFallbackIntervals =
                           IF m1.fallbackToWatchHealthyInterval # <<>> THEN @ + 1 ELSE @]

\* A watch that is closed, is not referenced by this._watchKvChange, has no deadline
\* pending and is not the one whose callback is running is garbage: nothing can
\* reach it any more.
Garbage(m, i) ==
    /\ m.watches[i].state = "closed"
    /\ m.watchKvChange # i
    /\ m.last.sess # i
    /\ \A k \in 1..Len(m.deadlines) : m.deadlines[k] # i

\* The Promise executor of _registerWatcherAndWaitForInitialKvData: consul.watch(),
\* the once-listeners and the deadline timer.
registerWatcherAndWaitForInitialKvData(m, by) ==
    LET free == {i \in WatchIds : m.watches[i].state = "free" \/ Garbage(m, i)}
    IN IF free = {} THEN [m EXCEPT !.overflow = TRUE]
       ELSE LET s == CHOOSE i \in free : \A j \in free : i <= j
            IN [m EXCEPT !.watches[s] = [FreeWatch EXCEPT !.state = "open", !.firstChange = TRUE,
                                            !.firstError = TRUE, !.owner = by, !.promise = "pending"],
                         !.watchKvChange = s,
                         !.deadlines = Append(@, s),
                         !.last.opened = @ \cup {s}]

\* A promise of start() settles: its continuation is queued as a microtask.
Task(kind, s, by, error, kvData) ==
    [kind |-> kind, sess |-> s, by |-> by, error |-> error, kvData |-> kvData]

Reject(m, s, error) ==
    IF m.watches[s].promise # "pending" THEN m
    ELSE [m EXCEPT !.watches[s].promise = "settled",
                   !.microtasks = Append(@, Task("reject", s, m.watches[s].owner, error, <<>>))]

Resolve(m, s, kvData) ==
    IF m.watches[s].promise # "pending" THEN m
    ELSE [m EXCEPT !.watches[s].promise = "settled",
                   !.microtasks = Append(@, Task("resolve", s, m.watches[s].owner, NoError, kvData))]

start(m, by) ==
    IF isWatcherRegistered(m)
    THEN [m EXCEPT !.microtasks = Append(@, Task("reject", Null, by, AlreadyInitializedError, <<>>))]
    ELSE registerWatcherAndWaitForInitialKvData(m, by)

\* The body of _retryStartService up to its await.
retryStartService(m) == start(m, "retry")

\* this.emit('unhealthy'): the user's listener runs inside the emit, and may call
\* stop().
RECURSIVE stop(_)
emitUnhealthy(m) ==
    LET m1 == Emit(m, "unhealthy", <<>>, NoError)
    IN IF m1.last.listener = "stop" THEN stop([m1 EXCEPT !.stopped = TRUE]) ELSE m1

\* _onWatcherEnd without lines 379-382: the monitor stays healthy.
onWatcherEndKeepsHealthy(m) ==
    LET m1 == [unsetFallbackToWatchHealthy(m) EXCEPT !.initialized = FALSE]
    IN retryStartService([m1 EXCEPT !.watchKvChange = Null])

onWatcherEnd(m) ==
    LET m1 == [unsetFallbackToWatchHealthy(m) EXCEPT !.initialized = FALSE]
        m2 == IF m1.isWatchHealthy
              THEN emitUnhealthy([m1 EXCEPT !.isWatchHealthy = FALSE])
              ELSE m1
    IN retryStartService([m2 EXCEPT !.watchKvChange = Null])

\* `end` reaches _onWatcherEnd once per registration with .on('end', ...).
RECURSIVE callOnWatcherEnd(_, _)
callOnWatcherEnd(n, m) == IF n = 0 THEN m ELSE callOnWatcherEnd(n - 1, onWatcherEnd(m))

\* Watch.end() of the consul library: a watch that has not ended yet ends and
\* emits `end` to the listeners attached at that moment.
watchEnd(m, s) ==
    IF m.watches[s].state # "open" THEN m
    ELSE callOnWatcherEnd(m.watches[s].onEnd,
               [m EXCEPT !.watches[s].state = "closed", !.last.closed = @ \cup {s}])

\* stop() without the early return of lines 233-235.
stopWithoutGuard(m) ==
    LET m1 == [m EXCEPT !.retryTimer = "null", !.last.returned = "this"]
    IN IF ~isWatcherRegistered(m1) THEN Throw(m1)
       ELSE LET w == m1.watchKvChange
                m2 == [m1 EXCEPT !.watches[w].onEnd = IF @ > 0 THEN @ - 1 ELSE 0]
                m3 == watchEnd(m2, w)
            IN [unsetFallbackToWatchHealthy([m3 EXCEPT !.watchKvChange = Null])
                    EXCEPT !.initialized = FALSE, !.isWatchHealthy = FALSE]

\* stop() without the _unsetFallbackToWatchHealthy() of line 241.
stopKeepsFallback(m) ==
    LET m1 == [m EXCEPT !.retryTimer = "null", !.last.returned = "this"]
    IN IF ~isWatcherRegistered(m1) THEN m1
       ELSE LET w == m1.watchKvChange
                m2 == [m1 EXCEPT !.watches[w].onEnd = IF @ > 0 THEN @ - 1 ELSE 0]
                m3 == watchEnd(m2, w)
            IN [m3 EXCEPT !.watchKvChange = Null, !.initialized = FALSE, !.isWatchHealthy = FALSE]

stop(m) ==
    LET m1 == [m EXCEPT !.retryTimer = "null", !.last.returned = "this"]
    IN IF ~isWatcherRegistered(m1) THEN m1
       ELSE LET w == m1.watchKvChange
                m2 == [m1 EXCEPT !.watches[w].onEnd = IF @ > 0 THEN @ - 1 ELSE 0]
                m3 == watchEnd(m2, w)
            IN [unsetFallbackToWatchHealthy([m3 EXCEPT !.watchKvChange = Null])
                    EXCEPT !.initialized = FALSE, !.isWatchHealthy = FALSE]

\* firstChange of the start() call that created watch s.
firstChange(m, s, response) ==
    IF m.watchKvChange = Null THEN Throw(m)
    ELSE LET m1 == IF m.watchKvChange = s THEN [m EXCEPT !.watches[s].firstError = FALSE] ELSE m
             m2 == [m1 EXCEPT !.deadlines = RemoveAll(@, s)]
             built == buildConsulKvData(response.data, m.json)
             m3 == setHeaders(m2, response)
             m4 == IF built.errors # <<>> THEN emitFactoryErrors(m3, built.errors) ELSE m3
         IN Resolve(m4, s, built.consulKvData)

\* firstError of the start() call that created watch s.
firstError(m, s, err) ==
    IF m.watchKvChange = Null THEN Throw(m)
    ELSE LET w == m.watchKvChange
             m1 == IF w = s THEN [m EXCEPT !.watches[s].firstChange = FALSE] ELSE m
             m2 == watchEnd(m1, w)
             m3 == [m2 EXCEPT !.watchKvChange = Null, !.deadlines = RemoveAll(@, s)]
         IN Reject(m3, s, WatchError(err.message))

\* The callback of timerId of the start() call that created watch s.
deadlineCallback(m, s) ==
    IF m.watchKvChange = Null THEN Throw(m)
    ELSE LET w == m.watchKvChange
             m1 == IF w = s THEN [m EXCEPT !.watches[s].firstError = FALSE, !.watches[s].firstChange = FALSE]
                   ELSE m
             m2 == watchEnd(m1, w)
         IN Reject([m2 EXCEPT !.watchKvChange = Null], s, WatchTimeoutError)

\* _onWatcherChange without the assignment of line 332.
onWatcherChangeKeepsSnapshot(m, response) ==
    LET isHealthyStateChanged == ~m.isWatchHealthy
        m1 == [m EXCEPT !.isWatchHealthy = TRUE]
        built == buildConsulKvData(response.data, m.json)
        m2 == setHeaders(m1, response)
        m3 == IF isHealthyStateChanged THEN Emit(m2, "healthy", <<>>, NoError) ELSE m2
        m4 == Emit(m3, "changed", built.consulKvData, NoError)
    IN IF built.errors # <<>> THEN emitFactoryErrors(m4, built.errors) ELSE m4

onWatcherChange(m, response) ==
    LET isHealthyStateChanged == ~m.isWatchHealthy
        m1 == [m EXCEPT !.isWatchHealthy = TRUE]
        built == buildConsulKvData(response.data, m.json)
        m2 == setHeaders([m1 EXCEPT !.consulKvData = built.consulKvData], response)
        m3 == IF isHealthyStateChanged THEN Emit(m2, "healthy", <<>>, NoError) ELSE m2
        m4 == Emit(m3, "changed", built.consulKvData, NoError)
    IN IF built.errors # <<>> THEN emitFactoryErrors(m4, built.errors) ELSE m4

\* _onWatcherError that also marks the monitor uninitialized.
onWatcherErrorUninitializes(m, err) ==
    LET m1 == unsetFallbackToWatchHealthy([m EXCEPT !.initialized = FALSE])
        m2 == IF m1.isWatchHealthy
              THEN emitUnhealthy([m1 EXCEPT !.isWatchHealthy = FALSE])
              ELSE m1
        m3 == setFallbackToWatchHealthy(m2)
    IN IF m3.fault THEN m3 ELSE Emit(m3, "error", <<>>, WatchError(err.message))

onWatcherError(m, err) ==
    LET m1 == unsetFallbackToWatchHealthy(m)
        m2 == IF m1.isWatchHealthy
              THEN emitUnhealthy([m1 EXCEPT !.isWatchHealthy = FALSE])
              ELSE m1
        m3 == setFallbackToWatchHealthy(m2)
    IN IF m3.fault THEN m3 ELSE Emit(m3, "error", <<>>, WatchError(err.message))

\* The callback of the fallback interval without the test of isWatchHealthy().
fallbackCallbackWithoutHealthTest(m) ==
    IF m.watchKvChange = Null THEN Throw(m)
    ELSE LET initialUpdateTime == m.fallbackToWatchHealthyInterval[1]
             lastUpdateTime == m.watches[m.watchKvChange].updateTime
         IN IF initialUpdateTime # lastUpdateTime
            THEN Emit([unsetFallbackToWatchHealthy(m) EXCEPT !.isWatchHealthy = TRUE], "healthy", <<>>, NoError)
            ELSE m

\* The callback of the fallback interval without the _unsetFallbackToWatchHealthy() of line 422.
fallbackCallbackKeepsInterval(m) ==
    IF m.isWatchHealthy THEN unsetFallbackToWatchHealthy(m)
    ELSE IF m.watchKvChange = Null THEN Throw(m)
    ELSE LET initialUpdateTime == m.fallbackToWatchHealthyInterval[1]
             lastUpdateTime == m.watches[m.watchKvChange].updateTime
         IN IF initialUpdateTime # lastUpdateTime
            THEN Emit([m EXCEPT !.isWatchHealthy = TRUE], "healthy", <<>>, NoError)
            ELSE m

\* The callback of the fallback interval without the _unsetFallbackToWatchHealthy() of line 414.
fallbackCallbackHealthyKeepsInterval(m) ==
    IF m.isWatchHealthy THEN m
    ELSE IF m.watchKvChange = Null THEN Throw(m)
    ELSE LET initialUpdateTime == m.fallbackToWatchHealthyInterval[1]
             lastUpdateTime == m.watches[m.watchKvChange].updateTime
         IN IF initialUpdateTime # lastUpdateTime
            THEN Emit([unsetFallbackToWatchHealthy(m) EXCEPT !.isWatchHealthy = TRUE], "healthy", <<>>, NoError)
            ELSE m

\* The callback of the fallback interval.
fallbackCallback(m) ==
    IF m.isWatchHealthy THEN unsetFallbackToWatchHealthy(m)
    ELSE IF m.watchKvChange = Null THEN Throw(m)
    ELSE LET initialUpdateTime == m.fallbackToWatchHealthyInterval[1]
             lastUpdateTime == m.watches[m.watchKvChange].updateTime
         IN IF initialUpdateTime # lastUpdateTime
            THEN Emit([unsetFallbackToWatchHealthy(m) EXCEPT !.isWatchHealthy = TRUE], "healthy", <<>>, NoError)
            ELSE m

Settled(m, task, outcome) ==
    [m EXCEPT !.last.settled = Append(@,
        [sess |-> task.sess, by |-> task.by, outcome |-> outcome, kvData |-> task.kvData])]

\* The catch block of _retryStartService without the setTimeout of line 450.
retryCatchWithoutTimer(m, err) ==
    IF Len(m.immediates) >= MaxImmediates THEN [m EXCEPT !.overflow = TRUE]
    ELSE [m EXCEPT !.immediates = Append(@, <<err>>)]

\* The catch block of _retryStartService.
retryCatch(m, err) ==
    LET m1 == IF Len(m.immediates) >= MaxImmediates THEN [m EXCEPT !.overflow = TRUE]
              ELSE [m EXCEPT !.immediates = Append(@, <<err>>)]
        m2 == IF m1.retryTimer # "armed" THEN m1
              ELSE IF m1.orphanRetryTimers >= MaxOrphanRetryTimers THEN [m1 EXCEPT !.overflow = TRUE]
              ELSE [m1 EXCEPT !.orphanRetryTimers = @ + 1]
    IN [m2 EXCEPT !.retryTimer = "armed"]

\* A start() promise rejects: the user's handler, or the catch of _retryStartService.
startRejected(m, task, err) ==
    IF task.by = "retry" THEN retryCatch(Settled(m, task, err.name), err)
    ELSE Settled(m, task, err.name)

\* A start() promise resolves: the .then of start(), then the user's handler or the
\* try block of _retryStartService after its await.
startResolved(m, task) ==
    IF m.watchKvChange = Null THEN startRejected(m, task, TypeError)
    ELSE LET w == m.watchKvChange
             m1 == [m EXCEPT !.watches[w].onChange = @ + 1, !.watches[w].onError = @ + 1,
                             !.watches[w].onEnd = @ + 1,
                             !.initialized = TRUE, !.isWatchHealthy = TRUE,
                             !.consulKvData = task.kvData]
             m2 == Settled(m1, task, "resolved")
         IN IF task.by = "retry"
            THEN Emit(Emit([m2 EXCEPT !.consulKvData = task.kvData], "healthy", <<>>, NoError),
                      "changed", task.kvData, NoError)
            ELSE m2

RECURSIVE RunTasks(_, _)
RunTasks(m, tasks) ==
    IF tasks = <<>> THEN m
    ELSE LET task == Head(tasks)
         IN RunTasks(IF task.kind = "resolve" THEN startResolved(m, task)
                     ELSE startRejected(m, task, task.error),
                     Tail(tasks))

\* The microtasks of the step run when its synchronous part has returned; an
\* uncaught exception ends the process before.
runMicrotasks(m) ==
    IF m.fault THEN m ELSE RunTasks([m EXCEPT !.microtasks = <<>>], m.microtasks)

\* `change` reaches _onWatcherChange once per registration.
RECURSIVE callOnWatcherChange(_, _, _)
callOnWatcherChange(n, m, response) ==
    IF n = 0 THEN m ELSE callOnWatcherChange(n - 1, onWatcherChange(m, response), response)

\* A watch emits `change` to the listeners attached at that moment.
emitChange(m, s, response) ==
    LET hadFirst == m.watches[s].firstChange
        n == m.watches[s].onChange
        m1 == IF hadFirst THEN firstChange([m EXCEPT !.watches[s].firstChange = FALSE], s, response) ELSE m
    IN IF m1.fault THEN m1 ELSE callOnWatcherChange(n, m1, response)

\* `error` reaches _onWatcherError once per registration; a throw ends the emit.
RECURSIVE callOnWatcherError(_, _, _)
callOnWatcherError(n, m, err) ==
    IF n = 0 \/ m.fault THEN m ELSE callOnWatcherError(n - 1, onWatcherError(m, err), err)

\* A watch emits `error` to the listeners attached at that moment; after a fatal
\* error (status 400) the consul library ends the watch.
emitError(m, s, err) ==
    LET hadFirst == m.watches[s].firstError
        n == m.watches[s].onError
        m1 == IF hadFirst THEN firstError([m EXCEPT !.watches[s].firstError = FALSE], s, err) ELSE m
        m2 == callOnWatcherError(n, m1, err)
    IN IF ~m2.fault /\ err.fatal THEN watchEnd(m2, s) ELSE m2

\* What no later step can observe is dropped at the end of a step: garbage
\* watches; the listeners of a closed watch, which emits nothing; updateTime() of
\* a watch this._watchKvChange does not reference, which nothing reads. When the
\* environment delivers late signals, a watch that stop() has ended keeps the
\* listeners left on it until it has delivered its signal.
Collect(m0) ==
    LET m == [m0 EXCEPT !.last.sess = Null]
        Listening(i) == \/ m.watches[i].firstChange \/ m.watches[i].firstError
                        \/ m.watches[i].onChange > 0 \/ m.watches[i].onError > 0
        Late(i) == /\ m0.lateSignals /\ ~m0.fault
                   /\ m.watches[i].state = "closed" /\ Listening(i)
                   /\ IF i \in m0.last.closed THEN m0.last.op = "stop"
                      ELSE m0.last.sess # i
    IN [m0 EXCEPT
        !.last.listening = {i \in m.last.closed : m.watches[i].state = "closed" /\ Listening(i)},
        !.watches = [i \in WatchIds |->
            LET watch == m.watches[i]
            IN IF Late(i) THEN [watch EXCEPT !.onEnd = 0, !.updateTime = 0]
               ELSE IF Garbage(m, i) THEN FreeWatch
               ELSE IF watch.state = "closed"
               THEN [watch EXCEPT !.firstChange = FALSE, !.firstError = FALSE, !.onChange = 0,
                                  !.onError = 0, !.onEnd = 0, !.updateTime = 0]
               ELSE IF m.watchKvChange # i THEN [watch EXCEPT !.updateTime = 0]
               ELSE watch]]

Commit(m0) ==
    \E m \in {Collect(m0)} :
       /\ ~m.overflow
       /\ \/ m.fault
          \/ Cardinality({i \in WatchIds : m.watches[i].state = "open" /\ m.watchKvChange # i})
                <= MaxOrphanWatches
       /\ json' = m.json
       /\ watchKvChange' = m.watchKvChange
       /\ initialized' = m.initialized
       /\ isWatchHealthy' = m.isWatchHealthy
       /\ consulKvData' = m.consulKvData
       /\ consulHeaders' = m.consulHeaders
       /\ fallbackToWatchHealthyInterval' = m.fallbackToWatchHealthyInterval
       /\ orphanFallbackIntervals' = m.orphanFallbackIntervals
       /\ retryTimer' = m.retryTimer
       /\ orphanRetryTimers' = m.orphanRetryTimers
       /\ watches' = m.watches
       /\ deadlines' = m.deadlines
       /\ immediates' = m.immediates
       /\ fault' = m.fault
       /\ stopped' = m.stopped
       /\ UNCHANGED <<rawData, result, lateSignals>>
       /\ last' = m.last

\* ---------------------------------------------------------------- steps
\* A constructor that starts with the snapshot of a response instead of
\* new ConsulKvData().
InitWithData ==
    /\ json \in BOOLEAN
    /\ watchKvChange = Null
    /\ initialized = FALSE
    /\ isWatchHealthy = FALSE
    /\ consulKvData = buildConsulKvData(Payload1, json).consulKvData
    /\ consulHeaders = {}
    /\ fallbackToWatchHealthyInterval = <<>>
    /\ orphanFallbackIntervals = 0
    /\ retryTimer = "null"
    /\ orphanRetryTimers = 0
    /\ watches = [i \in WatchIds |-> FreeWatch]
    /\ deadlines = <<>>
    /\ immediates = <<>>
    /\ fault = FALSE
    /\ stopped = FALSE
    /\ lateSignals = FALSE
    /\ rawData = Undefined
    /\ result = NoResult
    /\ last = NoStep

Init ==
    /\ json \in BOOLEAN
    /\ watchKvChange = Null
    /\ initialized = FALSE
    /\ isWatchHealthy = FALSE
    /\ consulKvData = <<>>
    /\ consulHeaders = {}
    /\ fallbackToWatchHealthyInterval = <<>>
    /\ orphanFallbackIntervals = 0
    /\ retryTimer = "null"
    /\ orphanRetryTimers = 0
    /\ watches = [i \in WatchIds |-> FreeWatch]
    /\ deadlines = <<>>
    /\ immediates = <<>>
    /\ fault = FALSE
    /\ stopped = FALSE
    /\ lateSignals = FALSE
    /\ rawData = Undefined
    /\ result = NoResult
    /\ last = NoStep

\* The user calls start().
Start ==
    /\ ~fault
    /\ Cardinality({i \in WatchIds : watches[i].state # "free"}) <= MaxStartWatches
    /\ Commit(runMicrotasks(start([State("start", Null) EXCEPT !.stopped = FALSE], "user")))

\* The user calls stop().
Stop ==
    /\ ~fault
    /\ Commit(runMicrotasks(stop([State("stop", Null) EXCEPT !.stopped = TRUE])))

\* Consul answers the blocking query of an open watch with a new index.
Change(s, response) ==
    /\ ~fault
    /\ watches[s].state = "open"
    /\ watches[s].updateTime < MaxUpdateTime
    /\ Commit(runMicrotasks(emitChange(
            [State("change", s) EXCEPT !.watches[s].updateTime = @ + 1], s, response)))

\* Consul answers the blocking query of an open watch with the index unchanged.
Unchanged(s) ==
    /\ ~fault
    /\ watches[s].state = "open"
    /\ watchKvChange = s
    /\ watches[s].updateTime < MaxUpdateTime
    /\ Commit([State("unchanged", s) EXCEPT !.watches[s].updateTime = @ + 1])

\* The blocking query of an open watch fails.
Error(s, err) ==
    /\ ~fault
    /\ watches[s].state = "open"
    /\ Commit(runMicrotasks(emitError(State("error", s), s, err)))

\* The blocking query of an open watch fails, and the user's listener of
\* `unhealthy` calls stop().
ErrorStopping(s, err) ==
    /\ ~fault
    /\ watches[s].state = "open"
    /\ Commit(runMicrotasks(emitError(
            [State("error", s) EXCEPT !.last.listener = "stop"], s, err)))

\* The oldest pending initial-fetch deadline expires.
Deadline ==
    /\ ~fault
    /\ deadlines # <<>>
    /\ LET s == Head(deadlines)
       IN Commit(runMicrotasks(deadlineCallback(
            [State("deadline", s) EXCEPT !.deadlines = Tail(@)], s)))

\* The fallback interval ticks.
FallbackTick ==
    /\ ~fault
    /\ fallbackToWatchHealthyInterval # <<>>
    /\ Commit(runMicrotasks(fallbackCallback(State("fallback", Null))))

\* The oldest pending retry timeout expires.
RetryTimeout ==
    /\ ~fault
    /\ \/ orphanRetryTimers > 0
       \/ retryTimer = "armed"
    /\ LET m == IF orphanRetryTimers > 0
                THEN [State("retry", Null) EXCEPT !.orphanRetryTimers = @ - 1]
                ELSE [State("retry", Null) EXCEPT !.retryTimer = "fired"]
       IN Commit(runMicrotasks(retryStartService(m)))

\* The oldest queued setImmediate callback runs.
Immediate ==
    /\ ~fault
    /\ immediates # <<>>
    /\ LET RECURSIVE EmitAll(_, _)
           EmitAll(m, errors) ==
               IF errors = <<>> THEN m
               ELSE EmitAll(Emit(m, "error", <<>>, Head(errors)), Tail(errors))
       IN Commit(EmitAll([State("immediate", Null) EXCEPT !.immediates = Tail(@)], Head(immediates)))

Next ==
    \/ Start
    \/ Stop
    \/ \E s \in WatchIds, response \in Responses : Change(s, response)
    \/ \E s \in WatchIds : Unchanged(s)
    \/ \E s \in WatchIds, err \in WatchErrs : Error(s, err)
    \/ Deadline
    \/ FallbackTick
    \/ RetryTimeout
    \/ Immediate

Spec == Init /\ [][Next]_vars

\* ---------------------------------------------------------------- stop() in a listener
\* The monitor of a user whose listener of `unhealthy` calls stop() when it sees
\* fit, in runs in which no initial-fetch deadline expires.
NextStopOnUnhealthy ==
    \/ Start
    \/ Stop
    \/ \E s \in WatchIds, response \in Responses : Change(s, response)
    \/ \E s \in WatchIds : Unchanged(s)
    \/ \E s \in WatchIds, err \in WatchErrs : Error(s, err)
    \/ \E s \in WatchIds, err \in WatchErrs : ErrorStopping(s, err)
    \/ FallbackTick
    \/ RetryTimeout
    \/ Immediate

SpecStopOnUnhealthy == Init /\ [][NextStopOnUnhealthy]_vars

\* ---------------------------------------------------------------- late signals
\* The constructor, in an environment where a watch delivers late signals.
InitLateSignals ==
    /\ json \in BOOLEAN
    /\ watchKvChange = Null
    /\ initialized = FALSE
    /\ isWatchHealthy = FALSE
    /\ consulKvData = <<>>
    /\ consulHeaders = {}
    /\ fallbackToWatchHealthyInterval = <<>>
    /\ orphanFallbackIntervals = 0
    /\ retryTimer = "null"
    /\ orphanRetryTimers = 0
    /\ watches = [i \in WatchIds |-> FreeWatch]
    /\ deadlines = <<>>
    /\ immediates = <<>>
    /\ fault = FALSE
    /\ stopped = FALSE
    /\ lateSignals = TRUE
    /\ rawData = Undefined
    /\ result = NoResult
    /\ last = NoStep

\* The listeners that stop() has left on the watch it ended.
Discarded(s) ==
    /\ watches[s].state = "closed"
    /\ \/ watches[s].firstChange \/ watches[s].firstError
       \/ watches[s].onChange > 0 \/ watches[s].onError > 0

\* A watch that stop() has ended delivers the response of the query that was
\* in flight: `change` is emitted to the listeners left on it.
LateChange(s, response) ==
    /\ ~fault
    /\ Discarded(s)
    /\ Commit(runMicrotasks(emitChange(State("late change", s), s, response)))

\* A watch that stop() has ended delivers the failure of the query that was in
\* flight: `error` is emitted to the listeners left on it.
LateError(s, err) ==
    /\ ~fault
    /\ Discarded(s)
    /\ Commit(runMicrotasks(emitError(State("late error", s), s, err)))

\* The monitor with late signals, in runs that are shorter than its timers
\* (HEALTH_FALLBACK_INTERVAL_MSEC, DEFAULT_RETRY_START_SERVICE_TIMEOUT_MSEC and
\* timeoutMsec): no timer callback runs.
NextLateSignals ==
    \/ Start
    \/ Stop
    \/ \E s \in WatchIds, response \in Responses : Change(s, response)
    \/ \E s \in WatchIds : Unchanged(s)
    \/ \E s \in WatchIds, err \in WatchErrs : Error(s, err)
    \/ \E s \in WatchIds, response \in Responses : LateChange(s, response)
    \/ \E s \in WatchIds, err \in WatchErrs : LateError(s, err)
    \/ Immediate

SpecLateSignals == InitLateSignals /\ [][NextLateSignals]_vars

\* The monitor when stop() is never called.
NextWithoutStop ==
    \/ Start
    \/ \E s \in WatchIds, response \in Responses : Change(s, response)
    \/ \E s \in WatchIds : Unchanged(s)
    \/ \E s \in WatchIds, err \in WatchErrs : Error(s, err)
    \/ Deadline
    \/ FallbackTick
    \/ RetryTimeout
    \/ Immediate

\* When the callbacks that Node.js has scheduled can run: a retry timer is
\* pending, the deadline of an initial fetch is pending, a setImmediate callback
\* is queued; and when a start attempt waits for its first signal.
RetryDue == ~fault /\ (retryTimer = "armed" \/ orphanRetryTimers > 0)
DeadlineDue == ~fault /\ deadlines # <<>>
ImmediateDue == ~fault /\ immediates # <<>>
FirstChangeDue ==
    ~fault /\ \E s \in WatchIds : watches[s].state = "open" /\ watches[s].promise = "pending"

\* The steps that fairness asks for, told by the observation of the step.
RetryRuns == last'.op = "retry"
DeadlineRuns == last'.op = "deadline"
FirstChange == last'.op = "change" /\ watches[last'.sess].promise = "pending"

\* The monitor when stop() is never called, timers and setImmediate callbacks of
\* Node.js run when they are due, and start attempts do not fail forever: when
\* attempts wait for their first signal again and again, one of them gets a change.
\* The conditions on the timers are weak fairness and the one on the first change
\* is strong fairness, with the enabling condition of each callback written as the
\* state of its timer (the size of the modelled queues does not hold a timer back).
SpecReconnect ==
    /\ Init /\ [][NextWithoutStop]_vars
    /\ WF_vars(Immediate)
    /\ <>[]RetryDue => []<><<RetryRuns>>_vars
    /\ <>[]DeadlineDue => []<><<DeadlineRuns>>_vars
    /\ []<>FirstChangeDue => []<><<FirstChange>>_vars

\* ---------------------------------------------------------------- buildConsulKvData on its own
\* The elements a payload is made of, and the payloads: undefined, values that
\* are no arrays, and the arrays of up to MaxRecords elements.
KvElements ==
    {RecJson, RecRaw, RecJsonSameKey, RecRawSameKey, RecJsonOtherKey, RecString, RecArray} \cup {RecWithout(field) : field \in KvFields}
NotAnArray ==
    {[type |-> type, items |-> <<>>] :
        type \in {"string", "boolean", "number", "symbol", "function", "null", "object"}}
Arrays == {[type |-> "array", items |-> items] :
              items \in UNION {[1..n -> KvElements] : n \in 0..MaxRecords}}
RawPayloads == {Undefined} \cup NotAnArray \cup Arrays

InitFactory ==
    /\ json \in BOOLEAN
    /\ rawData \in RawPayloads
    /\ result = NoResult
    /\ watchKvChange = Null
    /\ initialized = FALSE
    /\ isWatchHealthy = FALSE
    /\ consulKvData = <<>>
    /\ consulHeaders = {}
    /\ fallbackToWatchHealthyInterval = <<>>
    /\ orphanFallbackIntervals = 0
    /\ retryTimer = "null"
    /\ orphanRetryTimers = 0
    /\ watches = [i \in WatchIds |-> FreeWatch]
    /\ deadlines = <<>>
    /\ immediates = <<>>
    /\ fault = FALSE
    /\ stopped = FALSE
    /\ lateSignals = FALSE
    /\ last = NoStep

\* The call buildConsulKvData(rawData, json).
Build ==
    /\ result = NoResult
    /\ result' = <<buildConsulKvData(rawData, json)>>
    /\ UNCHANGED <<monitorVars, stopped, lateSignals, rawData, last>>

SpecFactory == InitFactory /\ [][Build]_vars

\* ---------------------------------------------------------------- claims
OpenWatches == {i \in WatchIds : watches[i].state = "open"}
RetryPending == retryTimer = "armed" \/ orphanRetryTimers > 0
HeadersOf(response) == {<<h, response.headers[h]>> : h \in X_CONSUL_HEADERS}
SettledWith(step, outcomes) ==
    {k \in 1..Len(step.settled) : step.settled[k].outcome \in outcomes}
Emitted(step, name) == {k \in 1..Len(step.emitted) : step.emitted[k].name = name}

\* C1: whenever a watch session is open, a call of start() rejects with
\* AlreadyInitializedError and leaves the session, the flags, the snapshot, the
\* headers and all timers as they were.
C1_StartWhileOpenRejects ==
    [][(last'.op = "start" /\ OpenWatches # {}) =>
        /\ Len(last'.settled) = 1
        /\ last'.settled[1].outcome = "AlreadyInitializedError"
        /\ UNCHANGED monitorVars]_vars

\* C2: at most one watch session that the monitor opened and has not closed exists.
C2_AtMostOneOpenSession == Cardinality(OpenWatches) <= 1

\* C3: when the first signal of a session opened by start() is a change, start()
\* resolves with the snapshot built from the data of that change; the monitor is
\* then initialized and healthy, getData() is that snapshot, the headers are those
\* of the response, and the session stays open with the persistent handlers attached.
C3_FirstChangeResolves ==
    [][\A s \in WatchIds :
        (last'.op = "change" /\ last'.sess = s /\ watches[s].promise = "pending") =>
            /\ ~fault'
            /\ Len(last'.settled) = 1
            /\ last'.settled[1].sess = s
            /\ last'.settled[1].outcome = "resolved"
            /\ \E response \in Responses :
                /\ last'.settled[1].kvData = buildConsulKvData(response.data, json).consulKvData
                /\ consulHeaders' = HeadersOf(response)
            /\ consulKvData' = last'.settled[1].kvData
            /\ initialized' /\ isWatchHealthy'
            /\ watchKvChange' = s
            /\ watches'[s].state = "open"
            /\ watches'[s].onChange = 1 /\ watches'[s].onError = 1 /\ watches'[s].onEnd = 1]_vars

\* C4: of the three outcomes of a start() call that opened a session (resolution
\* by the first change, WatchError by the first error, WatchTimeoutError by the
\* deadline) only one fires: once the promise of the call is settled, neither
\* firstChange nor firstError nor the deadline callback of that call runs.
C4_OneOutcome ==
    [][\A s \in WatchIds :
        (watches[s].promise = "settled" /\ last'.sess = s) =>
            /\ ~(last'.op = "change" /\ watches[s].firstChange)
            /\ ~(last'.op = "error" /\ watches[s].firstError)
            /\ last'.op # "deadline"]_vars

\* C5: when the first signal of a session opened by start() is an error, start()
\* rejects with a WatchError, the session is closed and discarded, the deadline is
\* cancelled, the monitor stays uninitialized and unhealthy, the snapshot and the
\* headers are unchanged and no `changed` is emitted.
C5_FirstErrorRejects ==
    [][\A s \in WatchIds :
        (last'.op = "error" /\ last'.sess = s /\ watches[s].promise = "pending") =>
            /\ ~fault'
            /\ Len(last'.settled) = 1
            /\ last'.settled[1].sess = s
            /\ last'.settled[1].outcome = "WatchError"
            /\ s \in last'.closed
            /\ last'.opened = {}
            /\ watchKvChange' = Null
            /\ \A k \in 1..Len(deadlines') : deadlines'[k] # s
            /\ ~initialized /\ ~isWatchHealthy
            /\ ~initialized' /\ ~isWatchHealthy'
            /\ consulKvData' = consulKvData
            /\ consulHeaders' = consulHeaders
            /\ Emitted(last', "changed") = {}]_vars

\* C6: when the initial-fetch deadline of a start() call expires (neither a change
\* nor an error came first), start() rejects with WatchTimeoutError and its session
\* is closed and discarded; no listener of the monitor stays attached to it, so a
\* signal it delivered afterwards would be ignored; nothing is emitted and the
\* flags, the snapshot and the headers stay as they were.
C6_DeadlineRejects ==
    [][\A s \in WatchIds :
        (last'.op = "deadline" /\ last'.sess = s) =>
            /\ ~fault'
            /\ Len(last'.settled) = 1
            /\ last'.settled[1].sess = s
            /\ last'.settled[1].outcome = "WatchTimeoutError"
            /\ last'.closed = {s}
            /\ last'.listening = {}
            /\ last'.opened = {}
            /\ watchKvChange' = Null
            /\ last'.emitted = <<>>
            /\ ~initialized' /\ ~isWatchHealthy'
            /\ consulKvData' = consulKvData
            /\ consulHeaders' = consulHeaders]_vars

\* C7: a start() call of the user that rejects with WatchError or WatchTimeoutError
\* schedules no retry: after the rejection no retry timer is pending and no session
\* is open, so none is opened before the user calls start() again.
C7_NoRetryAfterUserRejection ==
    [][(\E k \in SettledWith(last', {"WatchError", "WatchTimeoutError"}) : last'.settled[k].by = "user") =>
        /\ ~RetryPending'
        /\ last'.opened = {}
        /\ OpenWatches' = {}]_vars

\* C8: after stop() has returned no session is active, no fallback timer and no
\* retry timer is pending, the monitor is uninitialized and unhealthy, and stop()
\* returned the monitor.
C8_AfterStop ==
    last.op = "stop" =>
        /\ watchKvChange = Null
        /\ fallbackToWatchHealthyInterval = <<>>
        /\ ~RetryPending
        /\ ~initialized /\ ~isWatchHealthy
        /\ last.returned = "this"

\* C9: stop() on a monitor with no session does not fail, returns the monitor and
\* leaves it uninitialized and unhealthy with its snapshot (and everything else but
\* a stale retry handle) unchanged; a stop() that follows a stop() changes nothing.
C9_StopIdempotent ==
    [][(last'.op = "stop" /\ watchKvChange = Null) =>
        /\ ~fault'
        /\ last'.returned = "this"
        /\ last'.emitted = <<>> /\ last'.opened = {} /\ last'.closed = {}
        /\ ~initialized' /\ ~isWatchHealthy'
        /\ watchKvChange' = Null
        /\ consulKvData' = consulKvData
        /\ consulHeaders' = consulHeaders
        /\ (last.op = "stop" => UNCHANGED monitorVars)]_vars

\* C9 witness: stop() has just returned from a call made on a monitor that had no
\* session (it closed none) but holds a snapshot of an earlier session.
C9_Witness ==
    /\ last.op = "stop" /\ last.closed = {}
    /\ consulKvData # <<>>
    /\ watchKvChange = Null

\* C10: from the return of stop() until the user calls start() again no start
\* attempt is made and no session is opened, neither by a retry timer nor by the
\* closing of the session in stop().
C10_NoStartAfterStop ==
    stopped => (last.opened = {} /\ last.op # "retry")

\* C11: stop() called while a start() call is pending suppresses the initial-fetch
\* deadline of that call: when stop() has returned, no deadline of a session that
\* stop() closed is pending, so none can fire on an absent session or on the session
\* of a later start().
C11_StopSuppressesDeadline ==
    last.op = "stop" => \A k \in 1..Len(deadlines) : deadlines[k] \notin last.closed

\* C12: stop() emits nothing, and from its return until the next start() of the
\* user no `changed`, `healthy` or `unhealthy` is emitted; an `error` surfaces only
\* from the queue of asynchronous emissions, to which nothing is added any more.
C12_QuietAfterStop ==
    [][stopped' =>
        /\ last'.op = "stop" => last'.emitted = <<>>
        /\ Emitted(last', "changed") = {}
        /\ Emitted(last', "healthy") = {}
        /\ Emitted(last', "unhealthy") = {}
        /\ Emitted(last', "error") # {} => last'.op = "immediate"
        /\ Len(immediates') <= Len(immediates)]_vars

\* C13: a change delivered by the session of an initialized monitor replaces the
\* snapshot by the one built from its data and emits `changed` once with that
\* snapshot; an unhealthy monitor becomes healthy and emits `healthy` once, before
\* `changed`; a healthy one emits no `healthy`.
C13_ChangeOfInitialized ==
    [][\A s \in WatchIds :
        (last'.op = "change" /\ last'.sess = s /\ initialized /\ watchKvChange = s) =>
            \E response \in Responses :
                LET kvData == buildConsulKvData(response.data, json).consulKvData
                    changed == Event("changed", kvData, NoError)
                IN /\ consulKvData' = kvData
                   /\ isWatchHealthy'
                   /\ last'.emitted = IF isWatchHealthy THEN <<changed>>
                                      ELSE <<Event("healthy", <<>>, NoError), changed>>]_vars

\* C14: an error delivered by the session of an initialized monitor emits one
\* `error` with a WatchError that wraps it, preceded by `unhealthy` exactly when the
\* monitor was healthy; unless the error ends the session, the monitor is then
\* unhealthy and initialized, the session is active and a fallback timer runs.
C14_ErrorOfInitialized ==
    [][\A s \in WatchIds :
        (last'.op = "error" /\ last'.sess = s /\ initialized /\ watchKvChange = s) =>
            /\ ~fault'
            /\ \E err \in WatchErrs :
                LET error == Event("error", <<>>, WatchError(err.message))
                IN /\ last'.emitted = IF isWatchHealthy
                                      THEN <<Event("unhealthy", <<>>, NoError), error>>
                                      ELSE <<error>>
                   /\ ~err.fatal => last'.closed = {}
            /\ last'.closed = {} =>
                /\ ~isWatchHealthy' /\ initialized'
                /\ watchKvChange' = s /\ watches'[s].state = "open"
                /\ fallbackToWatchHealthyInterval' # <<>>]_vars

\* C15: when the session of an initialized monitor ends without stop(), the
\* fallback timer is cancelled, the monitor becomes uninitialized and unhealthy,
\* `unhealthy` is emitted once if it was healthy and not at all otherwise, the ended
\* session is discarded and the retry procedure makes a start attempt.
C15_EndOfInitialized ==
    [][\A s \in WatchIds :
        (/\ last'.op \in {"error", "deadline"} /\ s \in last'.closed
         /\ initialized /\ watchKvChange = s) =>
            /\ ~fault'
            /\ fallbackToWatchHealthyInterval' = <<>>
            /\ ~initialized' /\ ~isWatchHealthy'
            /\ Cardinality(Emitted(last', "unhealthy")) = IF isWatchHealthy THEN 1 ELSE 0
            /\ watchKvChange' = Null \/ watchKvChange' \in last'.opened
            /\ last'.opened # {}]_vars

\* C16: when stop() is never called and start attempts do not fail forever, a
\* failed attempt of the retry procedure leaves a retry timer armed (which fires),
\* and after the end of the session of an initialized monitor the monitor becomes
\* initialized and healthy again with a session active.
SessionEnded == last.op \in {"error", "deadline"} /\ last.closed # {} /\ last.opened # {}
RetryFailed == \E k \in 1..Len(last.settled) :
                  last.settled[k].by = "retry" /\ last.settled[k].outcome # "resolved"
Recovered == initialized /\ isWatchHealthy /\ watchKvChange # Null
C16_Reconnects ==
    /\ [](RetryFailed => RetryPending)
    /\ RetryPending ~> (last.op = "retry")
    /\ SessionEnded ~> Recovered

\* C16 witness: after failed attempts an attempt of the retry procedure has succeeded.
C16_Witness ==
    /\ \E k \in 1..Len(last.settled) :
          last.settled[k].by = "retry" /\ last.settled[k].outcome = "resolved"
    /\ retryTimer = "fired"
    /\ Recovered

\* C17: when a start attempt made by the retry procedure succeeds, the step emits
\* `healthy` once and then `changed` once with the snapshot of that fetch and
\* nothing else, the snapshot of the monitor is that snapshot, and no retry timer
\* is pending afterwards.
RetrySucceeded(k) ==
    /\ k \in 1..Len(last.settled)
    /\ last.settled[k].by = "retry" /\ last.settled[k].outcome = "resolved"
C17_RetrySuccess ==
    \A k \in 1..Len(last.settled) : RetrySucceeded(k) =>
        LET kvData == last.settled[k].kvData
        IN /\ last.emitted = <<Event("healthy", <<>>, NoError), Event("changed", kvData, NoError)>>
           /\ consulKvData = kvData
           /\ ~RetryPending

\* C18: a step in which a start attempt of the retry procedure fails emits no
\* `error` carrying that failure, queues exactly one `error` with that failure for
\* setImmediate, and leaves exactly one retry timer pending.
RetryCount == orphanRetryTimers + (IF retryTimer = "armed" THEN 1 ELSE 0)
C18_RetryFailure ==
    [][\A k \in 1..Len(last'.settled) :
          (last'.settled[k].by = "retry" /\ last'.settled[k].outcome # "resolved") =>
              /\ \A j \in Emitted(last', "error") :
                    last'.emitted[j].error.name # last'.settled[k].outcome
              /\ Len(immediates') = Len(immediates) + 1
              /\ LET errors == immediates'[Len(immediates')]
                 IN Len(errors) = 1 /\ errors[1].name = last'.settled[k].outcome
              /\ RetryCount' = 1]_vars

\* C19: a step in which a start() call rejects with AlreadyInitializedError arms no
\* retry timer: the timers pending afterwards are those pending before, less the
\* one whose firing made the call.
C19_AlreadyInitializedNotRetried ==
    [][SettledWith(last', {"AlreadyInitializedError"}) # {} =>
          RetryCount' <= RetryCount - (IF last'.op = "retry" THEN 1 ELSE 0)]_vars

\* C20: on an initialized monitor whose referenced session has completed its start, a tick of the
\* fallback interval emits `healthy` once when the monitor is unhealthy and
\* updateTime() differs from the baseline recorded at the error, and otherwise
\* not; a change of the referenced session emits `healthy` once when the monitor
\* is unhealthy, and otherwise not; after a `healthy` the monitor is healthy, so
\* the other of the two emits none until an error has made it unhealthy again.
C20_OneHealthyPerRecovery ==
    [][(initialized /\ watchKvChange # Null /\ watches[watchKvChange].promise = "settled") =>
          LET healthy == Cardinality(Emitted(last', "healthy"))
              lastUpdateTime == watches[watchKvChange].updateTime
          IN /\ last'.op = "fallback" =>
                  healthy = IF ~isWatchHealthy /\ fallbackToWatchHealthyInterval # <<lastUpdateTime>>
                            THEN 1 ELSE 0
             /\ (last'.op = "change" /\ last'.sess = watchKvChange) =>
                  healthy = IF isWatchHealthy THEN 0 ELSE 1
             /\ (last'.op \in {"fallback", "change"} /\ healthy > 0) => isWatchHealthy']_vars

\* C20 witness: after an error of the session of an initialized monitor, updateTime()
\* has moved on and a tick of the fallback interval has emitted `healthy`.
C20_Witness ==
    /\ last.op = "fallback" /\ last.emitted = <<Event("healthy", <<>>, NoError)>>
    /\ initialized /\ isWatchHealthy /\ watchKvChange # Null
    /\ fallbackToWatchHealthyInterval = <<>>

\* C21: a tick of the fallback interval of an unhealthy monitor at which
\* updateTime() of the session differs from the baseline of the interval cancels
\* the interval, makes the monitor healthy and emits `healthy` and nothing else,
\* leaving the snapshot as it was; a tick at which it equals the baseline emits
\* nothing and changes nothing, the interval included.
C21_FallbackTick ==
    [][(last'.op = "fallback" /\ ~isWatchHealthy) =>
          /\ ~fault'
          /\ watchKvChange # Null
          /\ IF fallbackToWatchHealthyInterval # <<watches[watchKvChange].updateTime>>
             THEN /\ fallbackToWatchHealthyInterval' = <<>>
                  /\ isWatchHealthy'
                  /\ last'.emitted = <<Event("healthy", <<>>, NoError)>>
                  /\ consulKvData' = consulKvData
             ELSE /\ last'.emitted = <<>>
                  /\ UNCHANGED monitorVars]_vars

\* C21 witness: a tick has found updateTime() moved on from the baseline: the
\* interval is cancelled, the monitor is healthy and `healthy` alone was emitted.
C21_Witness ==
    /\ last.op = "fallback" /\ last.emitted = <<Event("healthy", <<>>, NoError)>>
    /\ isWatchHealthy /\ fallbackToWatchHealthyInterval = <<>> /\ consulKvData # <<>>

\* C22: a step in which a watch delivers a change emits no diagnostic of the
\* snapshot it builds; when the build has diagnostics, the step queues them once,
\* in their order, for one setImmediate callback, after it has emitted `changed`
\* or resolved start(); the callback emits one `error` per queued diagnostic, in
\* that order, and nothing else.
IsDiagnostic(event) == event.name = "error" /\ event.error.name = "InvalidDataError"
C22_DiagnosticsDeferred ==
    [][/\ \A s \in WatchIds :
            (/\ last'.op = "change" /\ last'.sess = s
             /\ watches[s].onChange > 0 \/ (watches[s].firstChange /\ watchKvChange # Null)) =>
                \E response \in Responses :
                    LET errors == buildConsulKvData(response.data, json).errors
                    IN /\ HeadersOf(response) = consulHeaders'
                       /\ \A k \in 1..Len(last'.emitted) : ~IsDiagnostic(last'.emitted[k])
                       /\ immediates' = IF errors = <<>> THEN immediates
                                        ELSE Append(immediates, errors)
                       /\ errors # <<>> =>
                            \/ Emitted(last', "changed") # {}
                            \/ SettledWith(last', {"resolved"}) # {}
       /\ last'.op = "immediate" =>
            /\ immediates' = Tail(immediates)
            /\ last'.emitted = [k \in 1..Len(Head(immediates)) |->
                                   Event("error", <<>>, Head(immediates)[k])]]_vars

\* C23: a step in which a watch delivers a change whose payload has malformed or
\* undecodable records, and a snapshot is built from it, resolves the pending
\* start() with the snapshot of the remaining records or emits `changed` with it;
\* the step raises no exception, leaves an initialized monitor initialized, leaves
\* the monitor healthy, closes and opens no session and arms no retry timer.
C23_DataShapeNotFatal ==
    [][\A s \in WatchIds :
          (/\ last'.op = "change" /\ last'.sess = s
           /\ watches[s].onChange > 0 \/ (watches[s].firstChange /\ watchKvChange # Null)) =>
              \E response \in Responses :
                  LET built == buildConsulKvData(response.data, json)
                  IN /\ HeadersOf(response) = consulHeaders'
                     /\ built.errors # <<>> =>
                          /\ ~fault'
                          /\ \/ \E k \in SettledWith(last', {"resolved"}) :
                                   last'.settled[k].kvData = built.consulKvData
                             \/ \E k \in Emitted(last', "changed") :
                                   last'.emitted[k].data = built.consulKvData
                          /\ initialized => initialized'
                          /\ isWatchHealthy'
                          /\ last'.closed = {} /\ last'.opened = {}
                          /\ RetryCount' = RetryCount]_vars

IsSnapshot(kvData) ==
    /\ kvData \in Seq([key : {"k1", "k2", "k3"}, value : {"v", "\"v\""},
                       metaData : {RecJson, RecRaw, RecNoFlags}])
    /\ \A j, k \in 1..Len(kvData) : kvData[j].key = kvData[k].key => j = k
C25_GetData ==
    /\ ~initialized /\ ~isWatchHealthy /\ watchKvChange = Null
    /\ fallbackToWatchHealthyInterval = <<>> /\ retryTimer = "null" /\ orphanRetryTimers = 0
    /\ deadlines = <<>> /\ immediates = <<>>
    /\ consulHeaders = {} /\ consulKvData = <<>>
    /\ []IsSnapshot(consulKvData)
    /\ [][consulKvData' # consulKvData => last'.op = "change"]_vars

\* C25 witness: a start() has failed and no fetch has succeeded: the snapshot has
\* no keys and the headers are empty.
C25_Witness ==
    /\ last.op \in {"error", "deadline"}
    /\ SettledWith(last, {"WatchError", "WatchTimeoutError"}) # {}
    /\ consulKvData = <<>> /\ consulHeaders = {}

\* C26: every step leaves the snapshot and the headers as they were, unless a
\* watch has delivered a change and the step has resolved a start() or emitted
\* `changed`; the snapshot and the headers are then those of the delivered response.
C26_LastKnownValues ==
    [][\/ consulKvData' = consulKvData /\ consulHeaders' = consulHeaders
       \/ /\ last'.op = "change"
          /\ SettledWith(last', {"resolved"}) # {} \/ Emitted(last', "changed") # {}
          /\ \E response \in Responses :
                /\ consulHeaders' = HeadersOf(response)
                /\ consulKvData' = buildConsulKvData(response.data, json).consulKvData]_vars


\* C27: buildConsulKvData returns an empty snapshot and exactly one
\* InvalidDataError (the payload as a whole is malformed) for every payload that
\* is present but no sequence, and an empty snapshot without diagnostics for the
\* absent payload and for the empty sequence.
C27_NotASequence ==
    result # NoResult =>
        /\ rawData.type \notin {"undefined", "array"} =>
              /\ result[1].consulKvData = <<>>
              /\ Len(result[1].errors) = 1
              /\ result[1].errors[1].name = "InvalidDataError"
              /\ result[1].errors[1].message = "Invalid format of data received from consul KV"
              /\ result[1].errors[1].extra = <<rawData>>
        /\ rawData.type = "undefined" \/ (rawData.type = "array" /\ rawData.items = <<>>) =>
              /\ result[1].consulKvData = <<>>
              /\ result[1].errors = <<>>
C27_Witness ==
    /\ result # NoResult
    /\ rawData.type = "null"
    /\ Len(result[1].errors) = 1


\* The element is individually malformed: it is no structured record, or a
\* property of KvFields is missing.
Malformed(element) == element.type # "object" \/ ~(KvFields \subseteq element.fields)
WellFormed(element) == ~Malformed(element)
\* The diagnostics of malformed elements among the errors.
RecordErrors(errors) ==
    SelectSeq(errors, LAMBDA error :
        error.message = "Invalid format of record data received from consul KV")
\* The last of the records that has the key.
LastOfKey(records, key) ==
    records[CHOOSE k \in 1..Len(records) :
        /\ records[k].Key = key
        /\ \A l \in (k + 1)..Len(records) : records[l].Key # key]

\* C28 as stated: for a sequence of N elements of which M are malformed there are
\* exactly M InvalidDataError diagnostics of elements, the k-th carrying the k-th
\* malformed element, and with decoding disabled exactly N - M records are in the
\* snapshot, each under its key with its raw value and itself as metadata.
C28_AllValidRecordsStored ==
    result # NoResult /\ rawData.type = "array" =>
        LET offending == SelectSeq(rawData.items, Malformed)
            validRecords == SelectSeq(rawData.items, WellFormed)
            errors == RecordErrors(result[1].errors)
        IN /\ Len(errors) = Len(offending)
           /\ \A k \in 1..Len(errors) :
                 errors[k].name = "InvalidDataError" /\ errors[k].extra = <<offending[k]>>
           /\ ~json =>
                 /\ Len(result[1].consulKvData) = Len(rawData.items) - Len(offending)
                 /\ \A k \in 1..Len(validRecords) :
                       \E e \in 1..Len(result[1].consulKvData) :
                           result[1].consulKvData[e] =
                               [key |-> validRecords[k].Key, value |-> validRecords[k].Value,
                                metaData |-> validRecords[k]]

\* C28, corrected: the diagnostics are as stated, and with decoding disabled the
\* snapshot has one entry for every key of a well-formed record, under that key
\* the raw value and the full record of the last record with the key, and no
\* decode diagnostic; it has N - M entries when the keys of the well-formed
\* records differ from each other.
C28_LastRecordOfKeyStored ==
    result # NoResult /\ rawData.type = "array" =>
        LET offending == SelectSeq(rawData.items, Malformed)
            validRecords == SelectSeq(rawData.items, WellFormed)
            keys == {validRecords[k].Key : k \in 1..Len(validRecords)}
            errors == RecordErrors(result[1].errors)
            kvMap == result[1].consulKvData
        IN /\ Len(errors) = Len(offending)
           /\ \A k \in 1..Len(errors) :
                 errors[k].name = "InvalidDataError" /\ errors[k].extra = <<offending[k]>>
           /\ ~json =>
                 /\ Len(kvMap) = Cardinality(keys)
                 /\ Cardinality(keys) = Len(validRecords) => Len(kvMap) = Len(rawData.items) - Len(offending)
                 /\ \A key \in keys :
                       \E e \in 1..Len(kvMap) :
                           kvMap[e] = [key |-> key, value |-> LastOfKey(validRecords, key).Value,
                                       metaData |-> LastOfKey(validRecords, key)]
                 /\ errors = result[1].errors
C28_Witness ==
    /\ result # NoResult
    /\ ~json
    /\ rawData = [type |-> "array", items |-> <<RecJson, RecString, RecJsonSameKey>>]
    /\ Len(result[1].consulKvData) = 1
    /\ Len(result[1].errors) = 1


\* The raw value of the record is JSON text.
Parseable(record) == JsonParse(record.Value).ok
Unparseable(record) == ~Parseable(record)
\* The diagnostics of values that are no JSON text among the errors.
DecodeErrors(errors) ==
    SelectSeq(errors, LAMBDA error : error.message =
        "Invalid JSON of Value field of KV is received from consul, record will be skipped")

\* C29 as stated: with JSON decoding enabled every valid record whose value does
\* not parse is left out of the snapshot and has exactly one InvalidDataError
\* with its key and raw value, every valid record whose value parses is stored
\* with the decoded value, and the snapshot has as many keys as there are valid
\* records less the decode failures; with decoding disabled the stored value is
\* the raw value and there is no decode diagnostic.
C29_AllDecodedRecordsStored ==
    result # NoResult /\ rawData.type = "array" =>
        LET validRecords == SelectSeq(rawData.items, WellFormed)
            failures == SelectSeq(validRecords, Unparseable)
            errors == DecodeErrors(result[1].errors)
            kvMap == result[1].consulKvData
        IN /\ json =>
                 /\ Len(errors) = Len(failures)
                 /\ \A k \in 1..Len(errors) :
                       /\ errors[k].name = "InvalidDataError"
                       /\ errors[k].extra = <<failures[k].Key, failures[k].Value>>
                 /\ \A k \in 1..Len(failures), e \in 1..Len(kvMap) : kvMap[e].metaData # failures[k]
                 /\ \A k \in 1..Len(validRecords) :
                       Parseable(validRecords[k]) =>
                           \E e \in 1..Len(kvMap) :
                               kvMap[e] = [key |-> validRecords[k].Key,
                                           value |-> JsonParse(validRecords[k].Value).value,
                                           metaData |-> validRecords[k]]
                 /\ Len(kvMap) = Len(validRecords) - Len(failures)
           /\ ~json =>
                 /\ errors = <<>>
                 /\ \A e \in 1..Len(kvMap) : kvMap[e].value = kvMap[e].metaData.Value

\* C29, corrected: the diagnostics and the exclusion of the records that do not
\* parse are as stated; the snapshot has one key for every key of a valid record
\* whose value parses, with the decoded value and the record of the last such
\* record, which is the number of valid records less the decode failures when
\* the keys of these records differ from each other.
C29_LastDecodedRecordOfKeyStored ==
    result # NoResult /\ rawData.type = "array" =>
        LET validRecords == SelectSeq(rawData.items, WellFormed)
            failures == SelectSeq(validRecords, Unparseable)
            decoded == SelectSeq(validRecords, Parseable)
            keys == {decoded[k].Key : k \in 1..Len(decoded)}
            errors == DecodeErrors(result[1].errors)
            kvMap == result[1].consulKvData
        IN /\ json =>
                 /\ Len(errors) = Len(failures)
                 /\ \A k \in 1..Len(errors) :
                       /\ errors[k].name = "InvalidDataError"
                       /\ errors[k].extra = <<failures[k].Key, failures[k].Value>>
                 /\ \A k \in 1..Len(failures), e \in 1..Len(kvMap) : kvMap[e].metaData # failures[k]
                 /\ \A key \in keys :
                       \E e \in 1..Len(kvMap) :
                           kvMap[e] = [key |-> key,
                                       value |-> JsonParse(LastOfKey(decoded, key).Value).value,
                                       metaData |-> LastOfKey(decoded, key)]
                 /\ Len(kvMap) = Cardinality(keys)
                 /\ Cardinality(keys) = Len(decoded) => Len(kvMap) = Len(validRecords) - Len(failures)
           /\ ~json =>
                 /\ errors = <<>>
                 /\ \A e \in 1..Len(kvMap) : kvMap[e].value = kvMap[e].metaData.Value
C29_Witness ==
    /\ result # NoResult
    /\ json
    /\ rawData = [type |-> "array", items |-> <<RecJson, RecJsonSameKey, RecRawSameKey>>]
    /\ Len(result[1].consulKvData) = 1
    /\ result[1].consulKvData[1].value = "w"
    /\ Len(result[1].errors) = 1


\* C30: no fallback interval runs besides the one the handle references, and an
\* error of a session that carries _onWatcherError, received while the monitor is
\* initialized, leaves exactly the interval it started, whose baseline is the
\* updateTime() of the session at that moment (none when the error ended the
\* session, which cancels the interval again).
C30_OneFallbackTimer ==
    /\ [](orphanFallbackIntervals = 0)
    /\ [][last'.op = "error" /\ initialized /\ watches[last'.sess].onError > 0 =>
            /\ ~fault'
            /\ fallbackToWatchHealthyInterval' =
                   IF last'.sess \in last'.closed THEN <<>>
                   ELSE <<watches[last'.sess].updateTime>>]_vars


\* C31: a tick of the fallback interval that finds the monitor healthy cancels
\* the interval and does nothing else: it raises no fault (updateTime() is not
\* read, whatever this._watchKvChange is), emits nothing, settles and opens
\* nothing, and leaves the flags, the session, the snapshot, the headers and
\* the other timers as they were.
C31_TickOfHealthy ==
    [][(last'.op = "fallback" /\ isWatchHealthy) =>
          /\ ~fault'
          /\ fallbackToWatchHealthyInterval' = <<>>
          /\ isWatchHealthy'
          /\ last'.emitted = <<>> /\ last'.settled = <<>>
          /\ last'.opened = {} /\ last'.closed = {}
          /\ UNCHANGED <<watchKvChange, initialized, consulKvData, consulHeaders, watches,
                         orphanFallbackIntervals, retryTimer, orphanRetryTimers, deadlines,
                         immediates>>]_vars

\* C31 witness: a tick has found the monitor healthy and cancelled the interval
\* without a notification.
C31_Witness ==
    /\ last.op = "fallback" /\ last.emitted = <<>>
    /\ isWatchHealthy /\ initialized /\ fallbackToWatchHealthyInterval = <<>>


\* The keys of the entries, in the order of the map.
KeysOf(kvMap) == [e \in 1..Len(kvMap) |-> kvMap[e].key]
\* The place of the first record of the sequence that has the key.
FirstOfKey(records, key) ==
    CHOOSE k \in 1..Len(records) :
        /\ records[k].Key = key
        /\ \A l \in 1..(k - 1) : records[l].Key # key

\* C32: the diagnostics buildConsulKvData returns are the diagnostics of the
\* malformed elements in the order of the payload, followed by the diagnostics of
\* the values that do not parse in the order of the payload; and the keys of the
\* snapshot are in the order in which the valid records that are stored appear
\* in the payload (a key is at the place of its first record).
C32_Order ==
    result # NoResult /\ rawData.type = "array" =>
        LET offending == SelectSeq(rawData.items, Malformed)
            validRecords == SelectSeq(rawData.items, WellFormed)
            failures == IF json THEN SelectSeq(validRecords, Unparseable) ELSE <<>>
            stored == IF json THEN SelectSeq(validRecords, Parseable) ELSE validRecords
            keys == KeysOf(result[1].consulKvData)
        IN /\ result[1].errors =
                  [k \in 1..Len(offending) |->
                      InvalidDataError("Invalid format of record data received from consul KV",
                                       <<offending[k]>>)]
                  \o [k \in 1..Len(failures) |->
                      InvalidDataError(
                          "Invalid JSON of Value field of KV is received from consul, record will be skipped",
                          <<failures[k].Key, failures[k].Value>>)]
           /\ \A e \in 1..Len(keys) : \E k \in 1..Len(stored) : stored[k].Key = keys[e]
           /\ \A e, f \in 1..Len(keys) :
                 e < f => FirstOfKey(stored, keys[e]) < FirstOfKey(stored, keys[f])

\* C32 witness: a payload whose first element does not parse, whose second is
\* malformed and whose third is stored: the diagnostic of the second comes first.
C32_Witness ==
    /\ result # NoResult
    /\ json
    /\ rawData = [type |-> "array", items |-> <<RecRaw, RecString, RecJson>>]
    /\ KeysOf(result[1].consulKvData) = <<"k1">>
    /\ Len(result[1].errors) = 2
    /\ result[1].errors[1].extra = <<RecString>>


\* C33: in every reachable state a healthy monitor is initialized, and an
\* initialized monitor references a watch session that is open.
C33_HealthyInitializedActive ==
    /\ isWatchHealthy => initialized
    /\ initialized => watchKvChange # Null /\ watches[watchKvChange].state = "open"

\* C33 witness: the monitor is healthy again after a tick of the fallback
\* interval, initialized, with its session open.
C33_Witness ==
    /\ last.op = "fallback" /\ last.emitted # <<>>
    /\ isWatchHealthy /\ initialized
    /\ watchKvChange # Null /\ watches[watchKvChange].state = "open"


\* C34: a fallback interval runs only while the monitor is initialized and
\* references an open watch session, and no tick of the interval raises a fault
\* (this._watchKvChange.updateTime() is never called on null).
C34_FallbackHasSession ==
    /\ [](fallbackToWatchHealthyInterval # <<>> =>
             initialized /\ watchKvChange # Null /\ watches[watchKvChange].state = "open")
    /\ [][last'.op = "fallback" => ~fault']_vars

\* C34 witness: a tick of the interval has read updateTime() of the open session
\* and found it equal to the baseline: the interval goes on.
C34_Witness ==
    /\ last.op = "fallback" /\ ~fault
    /\ fallbackToWatchHealthyInterval # <<>> /\ ~isWatchHealthy /\ initialized
    /\ watchKvChange # Null /\ watches[watchKvChange].state = "open"


\* C35: in a step that emits `changed` the monitor is initialized (it was
\* before the step, or a start() resolved in the step before the notification),
\* it is healthy, and its snapshot is the one the notification carries.
C35_ChangedIsCurrent ==
    [][\A k \in Emitted(last', "changed") :
          /\ initialized \/ SettledWith(last', {"resolved"}) # {}
          /\ initialized'
          /\ isWatchHealthy'
          /\ consulKvData' = last'.emitted[k].data]_vars

\* C35 witness: `changed` was emitted for a change of the snapshot by the
\* change handler of an initialized monitor.
C35_Witness ==
    /\ last.op = "change" /\ last.settled = <<>>
    /\ Emitted(last, "changed") # {}
    /\ initialized /\ isWatchHealthy
    /\ consulKvData = buildConsulKvData(Payload2, json).consulKvData


\* A start() call whose promise is pending can still be settled: the process has
\* not failed, and the deadline of the call is pending or its watch is open and
\* carries firstChange or firstError.
CanSettle(s) ==
    /\ ~fault
    /\ \/ \E k \in 1..Len(deadlines) : deadlines[k] = s
       \/ watches[s].state = "open" /\ (watches[s].firstChange \/ watches[s].firstError)

\* C36: no start() promise stays unsettled forever, also when stop() is called
\* while the call is pending: as long as a promise is pending, something that
\* settles it is still to come.
C36_StartSettles ==
    \A s \in WatchIds : watches[s].promise = "pending" => CanSettle(s)


\* C37: every watch session that is open is the one this._watchKvChange
\* references, and the deadline of a start() call closes no session but the one
\* the call created.
C37_OpenIsReferenced ==
    /\ [](\A s \in OpenWatches : watchKvChange = s)
    /\ [][last'.op = "deadline" => last'.closed \subseteq {last'.sess}]_vars


\* Retry attempts in flight: start() calls of _retryStartService that wait for
\* the first signal of their open watch.
RetryInFlight ==
    {s \in WatchIds : /\ watches[s].state = "open"
                      /\ watches[s].owner = "retry"
                      /\ watches[s].promise = "pending"}

\* C38: at most one retry attempt is scheduled or in flight, a scheduled retry is
\* the one this._retryTimer refers to, and after stop() no retry is scheduled.
C38_OneRetry ==
    /\ [](RetryCount + Cardinality(RetryInFlight) <= 1)
    /\ [](orphanRetryTimers = 0)
    /\ [][last'.op = "stop" => ~RetryPending']_vars


\* C40: a change or an error that a watch delivers after stop() has ended and
\* discarded it has no effect on the monitor: the step raises no fault, emits
\* nothing, settles no start(), opens no session, and leaves the flags, the
\* snapshot, the headers and the fallback interval as they were.
C40_LateSignalIgnored ==
    [][last'.op \in {"late change", "late error"} =>
          /\ ~fault'
          /\ last'.emitted = <<>> /\ last'.settled = <<>> /\ last'.opened = {}
          /\ UNCHANGED <<initialized, isWatchHealthy, consulKvData, consulHeaders,
                         fallbackToWatchHealthyInterval, immediates>>]_vars


\* C39: when the user's listener of `unhealthy` calls stop() synchronously, the
\* handler that emitted the notification completes without fault, and afterwards
\* no session is active, no fallback or retry timer is pending, and the retry
\* procedure has opened no new session.
C39_StopInUnhealthyListener ==
    [][(last'.listener = "stop" /\ Emitted(last', "unhealthy") # {}) =>
          /\ ~fault'
          /\ watchKvChange' = Null
          /\ fallbackToWatchHealthyInterval' = <<>>
          /\ retryTimer' # "armed"
          /\ orphanRetryTimers' = 0
          /\ last'.opened = {}]_vars

====
